---- MODULE Spec2Model ----
(***************************************************************************)
(* Lifecycle of the pyOMA2 frequency-domain algorithms.                    *)
(*                                                                         *)
(* BaseAlgorithm (algorithm/base.py) holds result, run_params, data, fs    *)
(* and dt; FDD, EFDD, FSDD, FDD_MS and EFDD_MS (algorithms/fdd.py)         *)
(* override run, mpe and mpe_from_plot.  Python objects are references:    *)
(* run-parameter objects and result objects live in two heaps, and an      *)
(* instance stores the id of the object it was handed.  Every method call  *)
(* is one atomic action (the engine is synchronous); what the call         *)
(* returned or raised is kept in ret.                                      *)
(*                                                                         *)
(* Units: frequencies and bandwidths in tenths of a hertz (0.1 Hz = 1),    *)
(* MAC limits and overlaps in percent, dt = 1/fs as the pair <<1, fs>>.    *)
(* An attribute that may be None holds None or Some(value).                *)
(***************************************************************************)
EXTENDS Integers, Sequences, FiniteSets

VARIABLES
    algo,       \* algo[i]: the attributes of algorithm instance i
    params,     \* params[p]: the run-parameter object p (mutable, shareable)
    results,    \* results[r]: the result object r held by some instance
    ret,        \* outcome of the last call: what it raised, what it returned
    setups,     \* the single setups handed to a multi-setup merge, in input order
    classes     \* the class statements of fdd.py executed so far and the pair each class holds

vars == <<algo, params, results, ret, setups, classes>>

(***************************************************************************)
(* Values                                                                  *)
(***************************************************************************)
\* An attribute that may be None is a sequence of length at most one.
None == << >>

Some(x) == <<x>>

Val(o) == o[1]

\* The algorithm instances of one analysis session.
Inst == {"a1", "a2"}

\* The concrete classes of fdd.py.
Classes == {"FDD", "EFDD", "FSDD", "FDD_MS", "EFDD_MS"}

\* Run-parameter objects the caller has built, and result-object slots.
ParamIds == {"p1", "p2"}
ResIds == {"r1", "r2"}

\* Signature defaults of mpe / mpe_from_plot.
DF_default == 1
DF1_default == 1
DF2_default == 10
cm_default == 1
MAClim_default == 85
sppk_default == 3
npmax_default == 20

\* Number of peaks of the correlation function of an isolated bell.
NCorrPeaks == 6

\* What a call can raise.
OK == "ok"
RunFirst == "ValueError: Run algorithm first"
RunFirstNamed == "ValueError: <name>:Run algorithm first"
NoData_T == "AttributeError: 'NoneType' object has no attribute 'T'"
NoRunParams_nxseg == "AttributeError: 'NoneType' object has no attribute 'nxseg'"
NoRunParams_sel_freq == "AttributeError: 'NoneType' object has no attribute 'sel_freq'"
NoRunParams_DF == "AttributeError: 'NoneType' object has no attribute 'DF'"
NoRunParams_DF1 == "AttributeError: 'NoneType' object has no attribute 'DF1'"
NoResult_Sy == "AttributeError: 'NoneType' object has no attribute 'Sy'"
NoResult_Plot == "AttributeError raised by SelFromPlot: the algorithm has no result"
ZeroDiv == "ZeroDivisionError"
SpectralErr == "error inside spectral estimation"
FitErr == "error inside modal fitting"
PeakNotFound == "PeakNotFoundError"
InsufficientPeaks == "InsufficientPeaksError"

(***************************************************************************)
(* Classes: what each class resolves by attribute lookup                   *)
(***************************************************************************)
\* The class whose mpe / mpe_from_plot body an instance of c executes.
MpeOwner(c) == IF c \in {"FDD", "FDD_MS"} THEN "FDD" ELSE "EFDD"

\* The class whose run body an instance of c executes.
RunOwner(c) == IF c \in {"FDD", "EFDD", "FSDD"} THEN "FDD" ELSE c

RunParamCls(c) == IF MpeOwner(c) = "FDD" THEN "FDDRunParams" ELSE "EFDDRunParams"

ResultCls(c) == IF MpeOwner(c) = "FDD" THEN "FDDResult" ELSE "EFDDResult"

\* Mutant: every enhanced class hands over the tag of EFDD.
method_AlwaysEFDD(c) == "EFDD"

\* The method tag of the enhanced classes.
method(c) == IF c = "FSDD" THEN "FSDD" ELSE "EFDD"

(***************************************************************************)
(* Class statements of fdd.py: subscripting and class bodies               *)
(***************************************************************************)
\* Mutant: the multi-setup class FDD_MS is defined before EFDD.
DefinitionOrder_MSFirst == <<"FDD", "FDD_MS", "EFDD", "FSDD", "EFDD_MS">>

\* The class statements of the module, in file order.
DefinitionOrder == <<"FDD", "EFDD", "FSDD", "FDD_MS", "EFDD_MS">>

\* The class named in the header of each class statement.
Base(c) == CASE c = "FDD" -> "BaseAlgorithm"
             [] c = "EFDD" -> "FDD"
             [] c = "FSDD" -> "EFDD"
             [] c = "FDD_MS" -> "FDD"
             [] c = "EFDD_MS" -> "EFDD"

\* The (run parameter class, result class) pair the header subscripts its
\* base with; FSDD names its base without a subscript.
Subscript(c) == CASE c \in {"FDD", "FDD_MS"} -> Some(<<"FDDRunParams", "FDDResult">>)
                  [] c \in {"EFDD", "EFDD_MS"} -> Some(<<"EFDDRunParams", "EFDDResult">>)
                  [] c = "FSDD" -> None

\* The pair the class body assigns; the body of FSDD assigns none.
Declared(c) == CASE c \in {"FDD", "FDD_MS"} -> Some(<<"FDDRunParams", "FDDResult">>)
                 [] c \in {"EFDD", "EFDD_MS"} -> Some(<<"EFDDRunParams", "EFDDResult">>)
                 [] c = "FSDD" -> None

\* __class_getitem__: the pair is assigned on the subscripted class itself,
\* which is returned as the base.
ClassGetItem(own, cls, item) == [own EXCEPT ![cls] = Some(item)]

\* Before any class statement: BaseAlgorithm only annotates the two
\* attributes, no class holds a pair.
NoClasses == [c \in Classes \cup {"BaseAlgorithm"} |-> None]

\* Attribute lookup along the bases of c.
RECURSIVE Resolve(_, _)
Resolve(own, c) ==
    IF own[c] # None THEN own[c]
    ELSE IF c = "BaseAlgorithm" THEN None
    ELSE Resolve(own, Base(c))

\* One class statement: the header is evaluated (subscripting the base),
\* then the body's assignments become the attributes of the new class.
DefineClass(own, c) ==
    LET hdr == IF Subscript(c) = None THEN own
               ELSE ClassGetItem(own, Base(c), Val(Subscript(c)))
    IN [hdr EXCEPT ![c] = Declared(c)]

\* __init_subclass__: the new class must resolve both attributes.
InitSubclass(own, c) ==
    IF Resolve(own, c) = None THEN "ValueError: RunParamCls must be defined" ELSE OK

\* The class attributes after the first k class statements.
RECURSIVE Imported(_)
Imported(k) == IF k = 0 THEN NoClasses ELSE DefineClass(Imported(k - 1), DefinitionOrder[k])

(***************************************************************************)
(* Run parameters                                                          *)
(***************************************************************************)
\* The run-stage configuration each caller-built object carries.
Config(p) ==
    IF p = "p1" THEN [nxseg |-> 1024, method_SD |-> "cor", pov |-> 50]
                ELSE [nxseg |-> 2048, method_SD |-> "per", pov |-> 50]

\* A freshly built run-parameter object of class k.
NewRunParams(k, cfg) ==
    [cls |-> k, nxseg |-> cfg.nxseg, method_SD |-> cfg.method_SD, pov |-> cfg.pov,
     sel_freq |-> None,
     DF |-> IF k = "FDDRunParams" THEN Some(DF_default) ELSE None,
     DF1 |-> IF k = "EFDDRunParams" THEN Some(DF1_default) ELSE None,
     DF2 |-> IF k = "EFDDRunParams" THEN Some(DF2_default) ELSE None,
     cm |-> IF k = "EFDDRunParams" THEN Some(cm_default) ELSE None,
     MAClim |-> IF k = "EFDDRunParams" THEN Some(MAClim_default) ELSE None,
     sppk |-> IF k = "EFDDRunParams" THEN Some(sppk_default) ELSE None,
     npmax |-> IF k = "EFDDRunParams" THEN Some(npmax_default) ELSE None]

\* Frequency lists a caller (or the peak-picking collaborator) hands over.
SelLists == {<< >>, <<26, 84>>}

\* Search bandwidths a caller passes as DF.
DFs == {DF_default, 25}

\* Argument tuples a caller passes to the enhanced estimation.
EFDDArgs ==
    {[DF1 |-> DF1_default, DF2 |-> DF2_default, cm |-> cm_default,
      MAClim |-> MAClim_default, sppk |-> sppk_default, npmax |-> npmax_default],
     [DF1 |-> 25, DF2 |-> 30, cm |-> 2, MAClim |-> 90, sppk |-> 9, npmax |-> 10]}

\* (data, fs) pairs a caller binds; fs = 0 makes set_data fail half-way.
DataInputs == {<<"d1", 50>>, <<"d2", 50>>, <<"d1", 0>>}

(***************************************************************************)
(* BaseAlgorithm                                                           *)
(***************************************************************************)
\* __init__ without run_params and without keyword parameters.
NewAlgorithm(c) ==
    [cls |-> c, name |-> c, run_params |-> None, result |-> None,
     data |-> None, fs |-> None, dt |-> None]

\* _pre_run: the check the base class offers before a run.
PreRun(a) ==
    IF a.fs = None \/ a.data = None THEN "ValueError: data must be set"
    ELSE IF a.run_params = None THEN "ValueError: run parameters must be set"
    ELSE OK

\* The result-presence check of the abstract mpe body.
BaseMpe(a) == IF a.result = None THEN RunFirst ELSE OK

\* The result-presence check of the abstract mpe_fromPlot body.
BaseMpeFromPlot(a) == IF a.result = None THEN RunFirstNamed ELSE OK

\* set_data: three assignments in order; 1 / fs raises for fs = 0.
SetDataFields(a, d, fs) ==
    IF fs = 0 THEN [a EXCEPT !.data = Some(d), !.fs = Some(fs)]
    ELSE [a EXCEPT !.data = Some(d), !.fs = Some(fs), !.dt = Some(<<1, fs>>)]

SetData(i, d, fs) ==
    /\ algo' = [algo EXCEPT ![i] = SetDataFields(algo[i], d, fs)]
    /\ ret' = [status |-> IF fs = 0 THEN ZeroDiv ELSE OK, value |-> None]
    /\ UNCHANGED <<params, results, setups, classes>>

\* set_run_params: stores the reference.
SetRunParams(i, p) ==
    /\ params[p].cls = RunParamCls(algo[i].cls)
    /\ algo' = [algo EXCEPT ![i].run_params = Some(p)]
    /\ ret' = [status |-> OK, value |-> None]
    /\ UNCHANGED <<params, results, setups, classes>>

\* set_result: stores the reference.
SetResultField(a, r) == [a EXCEPT !.result = Some(r)]

(***************************************************************************)
(* Spectral estimation and decomposition (pyoma2.functions.fdd)            *)
(***************************************************************************)
\* SD_est / SD_PreGER: frequency axis and spectral matrix as terms over
\* everything the estimate is computed from.
SD_est(est, Y, dt, nxseg, m, pov) ==
    [freq |-> <<"freq", dt, nxseg>>,
     Sy |-> [est |-> est, data |-> Y, dt |-> dt, nxseg |-> nxseg,
             method_SD |-> m, pov |-> pov]]

\* SD_svalsvec: singular values and vectors of every frequency line.
SD_svalsvec(Sy) == [S_val |-> <<"S_val", Sy>>, S_vec |-> <<"S_vec", Sy>>]

\* What a run raises before or inside the spectral estimation.
RunStatus(a) ==
    IF RunOwner(a.cls) = "FDD"
    THEN IF a.data = None THEN NoData_T                     \* self.data.T
         ELSE IF a.run_params = None THEN NoRunParams_nxseg \* self.run_params.nxseg
         ELSE IF a.dt = None THEN SpectralErr               \* SD_est(Y, Y, None, ...)
         ELSE OK
    ELSE IF a.run_params = None THEN NoRunParams_nxseg
         ELSE IF a.data = None \/ a.fs = None \/ a.fs = Some(0) THEN SpectralErr
         ELSE OK

\* Mutant: a run whose result carries the modes of the result the instance
\* already holds.
RunResult_CarriesModes(a, rp) ==
    LET sd == SD_est("SD_est", Val(a.data), IF a.dt = None THEN <<1, Val(a.fs)>> ELSE Val(a.dt),
                     rp.nxseg, rp.method_SD, rp.pov)
        sv == SD_svalsvec(sd.Sy)
        old == IF a.result = None THEN None ELSE results[Val(a.result)]
    IN [cls |-> ResultCls(a.cls), freq |-> sd.freq,
        Sy |-> sd.Sy, S_val |-> sv.S_val, S_vec |-> sv.S_vec,
        Fn |-> IF old = None THEN None ELSE Val(old).Fn,
        Phi |-> IF old = None THEN None ELSE Val(old).Phi,
        Xi |-> None, forPlot |-> None,
        made_with |-> a.run_params]

\* Mutant: a run that extends the frequency axis of a result the instance
\* already holds instead of building its result from the inputs alone.
RunResult_Appends(a, rp) ==
    LET sd == SD_est("SD_est", Val(a.data), IF a.dt = None THEN <<1, Val(a.fs)>> ELSE Val(a.dt),
                     rp.nxseg, rp.method_SD, rp.pov)
        sv == SD_svalsvec(sd.Sy)
    IN [cls |-> ResultCls(a.cls),
        freq |-> IF a.result = None THEN sd.freq ELSE <<"appended", sd.freq>>,
        Sy |-> sd.Sy, S_val |-> sv.S_val, S_vec |-> sv.S_vec,
        Fn |-> None, Phi |-> None, Xi |-> None, forPlot |-> None,
        made_with |-> a.run_params]

\* The result object a successful run builds with self.ResultCls(...).
RunResult(a, rp) ==
    LET sd == IF RunOwner(a.cls) = "FDD"
              THEN SD_est("SD_est", Val(a.data), Val(a.dt),
                          rp.nxseg, rp.method_SD, rp.pov)
              ELSE SD_est("SD_PreGER", Val(a.data), <<1, Val(a.fs)>>,
                          rp.nxseg, rp.method_SD, rp.pov)
        sv == SD_svalsvec(sd.Sy)
    IN [cls |-> ResultCls(a.cls), freq |-> sd.freq, Sy |-> sd.Sy,
        S_val |-> sv.S_val, S_vec |-> sv.S_vec,
        Fn |-> None, Phi |-> None, Xi |-> None, forPlot |-> None,
        made_with |-> a.run_params]

\* run: returns the result object; the instance is not touched.
Run(i) ==
    LET a == algo[i]
        st == RunStatus(a)
    IN /\ ret' = [status |-> st,
                  value |-> IF st = OK THEN Some(RunResult(a, params[Val(a.run_params)]))
                            ELSE None]
       /\ UNCHANGED <<algo, params, results, setups, classes>>

(***************************************************************************)
(* The result heap                                                         *)
(***************************************************************************)
\* Result objects some instance refers to, once instance i refers to r.
Referenced(al) == {Val(al[j].result) : j \in {k \in Inst : al[k].result # None}}

FreeSlot(i) ==
    LET used == {Val(algo[j].result) : j \in {k \in Inst \ {i} : algo[k].result # None}}
    IN IF "r1" \notin used THEN "r1" ELSE "r2"

\* Objects no instance refers to any more are dropped.
Collect(al, res) == [r \in ResIds |-> IF r \in Referenced(al) THEN res[r] ELSE None]

\* set_result(run()'s return value): the returned object becomes the result.
SetResultReturned(i) ==
    /\ ret.value # None
    /\ LET r == FreeSlot(i)
           al == [algo EXCEPT ![i] = SetResultField(algo[i], r)]
       IN /\ algo' = al
          /\ results' = Collect(al, [results EXCEPT ![r] = ret.value])
    /\ ret' = [status |-> OK, value |-> None]
    /\ UNCHANGED <<params, setups, classes>>

\* set_result(other.result): two instances share one result object.
SetResultShared(i, j) ==
    /\ j # i
    /\ algo[j].result # None
    /\ LET al == [algo EXCEPT ![i] = SetResultField(algo[i], Val(algo[j].result))]
       IN /\ algo' = al
          /\ results' = Collect(al, results)
    /\ ret' = [status |-> OK, value |-> None]
    /\ UNCHANGED <<params, setups, classes>>

(***************************************************************************)
(* Peak extraction and modal fitting (pyoma2.functions.fdd)                *)
(***************************************************************************)
\* Lines where the top singular value of the spectrum of a data set peaks.
PeakLines(Sy) == IF Sy.data = "d1" THEN {26, 84} ELSE {40, 84}

Dist(p, f) == IF p >= f THEN p - f ELSE f - p

\* Peaks within target +/- bandwidth.
Candidates(Sy, f, bw) == {p \in PeakLines(Sy) : Dist(p, f) <= bw}

\* locate_peak: the peak nearest to the target inside the search band.
locate_peak(Sy, f, bw) ==
    CHOOSE p \in Candidates(Sy, f, bw) :
        \A q \in Candidates(Sy, f, bw) :
            Dist(p, f) < Dist(q, f) \/ (Dist(p, f) = Dist(q, f) /\ p <= q)

\* Some selected frequency has no peak in its search band.
NoPeak(Sy, sel_freq, bw) ==
    \E k \in 1..Len(sel_freq) : Candidates(Sy, sel_freq[k], bw) = {}

\* fdd.FDD_mpe: peak frequency and singular vector per selected frequency.
FDD_mpe(S_val, S_vec, freq, sel_freq, DF) ==
    IF NoPeak(S_val[2], sel_freq, DF)
    THEN [status |-> PeakNotFound, Fn |-> << >>, Phi |-> << >>]
    ELSE [status |-> OK,
          Fn |-> [k \in 1..Len(sel_freq) |-> locate_peak(S_val[2], sel_freq[k], DF)],
          Phi |-> [k \in 1..Len(sel_freq) |->
                      <<"phi", S_vec, locate_peak(S_val[2], sel_freq[k], DF)>>]]

\* Peaks left for the logarithmic-decrement fit after skipping sppk of them.
UsablePeaks(sppk, npmax) ==
    IF NCorrPeaks - sppk < npmax THEN NCorrPeaks - sppk ELSE npmax

\* fdd.EFDD_mpe: bell isolation, correlation function and damping fit.
EFDD_mpe(Sy, freq, dt, sel_freq, method_SD, meth, args) ==
    LET fit == [dt |-> dt, method_SD |-> method_SD, method |-> meth, args |-> args]
        line(k) == locate_peak(Sy, sel_freq[k], args.DF1)
        failed(st) == [status |-> st, Fn |-> << >>, Xi |-> << >>,
                       Phi |-> << >>, forPlot |-> << >>]
    IN IF NoPeak(Sy, sel_freq, args.DF1) THEN failed(PeakNotFound)
       ELSE IF dt = None THEN failed(FitErr)
       ELSE IF Len(sel_freq) > 0 /\ UsablePeaks(args.sppk, args.npmax) < 2
            THEN failed(InsufficientPeaks)
       ELSE [status |-> OK,
             Fn |-> [k \in 1..Len(sel_freq) |-> << <<"fn", line(k), fit>> >>],
             Xi |-> [k \in 1..Len(sel_freq) |-> << <<"xi", line(k), fit>> >>],
             Phi |-> [k \in 1..Len(sel_freq) |-> <<"phi", Sy, line(k), fit>>],
             forPlot |-> [k \in 1..Len(sel_freq) |-> <<"plot", Sy, line(k), fit>>]]

\* ndarray.reshape(-1) of a column: the flat sequence of its entries.
Reshape(col) == [k \in 1..Len(col) |-> col[k][1]]

(***************************************************************************)
(* FDD.mpe and FDD.mpe_from_plot                                           *)
(***************************************************************************)
\* What a method leaves behind: what it raised, the run-parameter object
\* and the result object of the instance afterwards.
Outcome(st, rp, res) == [status |-> st, rp |-> rp, res |-> res]

\* self.run_params.sel_freq = sel_freq; self.run_params.DF = DF
SaveRunParamsFDD(rp, sel_freq, DF) ==
    [rp EXCEPT !.sel_freq = Some(sel_freq), !.DF = Some(DF)]

\* self.run_params.DF = DF
SaveRunParamsFDDPlot(rp, DF) == [rp EXCEPT !.DF = Some(DF)]


\* Mutant: a basic save that also fills the damping field.
SaveResultFDD_WritesDamping(res, out) ==
    [res EXCEPT !.Fn = Some(out.Fn), !.Phi = Some(out.Phi), !.Xi = Some(<< >>)]

\* Mutant: the new modes are appended to the ones already stored.
SaveResultFDD_Appends(res, out) ==
    IF res.Fn = None
    THEN [res EXCEPT !.Fn = Some(out.Fn), !.Phi = Some(out.Phi)]
    ELSE [res EXCEPT !.Fn = Some(Val(res.Fn) \o out.Fn),
                     !.Phi = Some(Val(res.Phi) \o out.Phi)]

\* self.result.Fn = Fn_FDD; self.result.Phi = Phi_FDD
SaveResultFDD(res, out) == [res EXCEPT !.Fn = Some(out.Fn), !.Phi = Some(out.Phi)]

\* Mutant: the stored modes are cleared before the estimator is called.
EstimateFDD_ClearsFirst(rp, res, sel_freq, DF) ==
    LET out == FDD_mpe(res.S_val, res.S_vec, res.freq, sel_freq, DF)
        cleared == [res EXCEPT !.Fn = None, !.Phi = None]
    IN IF out.status # OK THEN Outcome(out.status, Some(rp), Some(cleared))
       ELSE Outcome(OK, Some(rp),
                    Some([cleared EXCEPT !.Fn = Some(out.Fn), !.Phi = Some(out.Phi)]))

\* The estimation and storage shared by FDD.mpe and FDD.mpe_from_plot.
EstimateFDD(rp, res, sel_freq, DF) ==
    LET out == FDD_mpe(res.S_val, res.S_vec, res.freq, sel_freq, DF)
    IN IF out.status # OK THEN Outcome(out.status, Some(rp), Some(res))
       ELSE Outcome(OK, Some(rp), Some(SaveResultFDD(res, out)))

\* FDD.mpe(sel_freq, DF) on instance a holding rp and res (each maybe None).
FDDmpe(a, rp, res, sel_freq, DF) ==
    IF BaseMpe(a) # OK THEN Outcome(BaseMpe(a), rp, res)
    ELSE IF rp = None THEN Outcome(NoRunParams_sel_freq, rp, res)
    ELSE EstimateFDD(SaveRunParamsFDD(Val(rp), sel_freq, DF), Val(res), sel_freq, DF)

\* FDD.mpe_from_plot(freqlim, DF); picks is what the collaborator returns.
FDDmpe_from_plot(a, rp, res, picks, DF) ==
    IF BaseMpeFromPlot(a) # OK THEN Outcome(BaseMpeFromPlot(a), rp, res)
    ELSE IF rp = None THEN Outcome(NoRunParams_DF, rp, res)
    ELSE EstimateFDD(SaveRunParamsFDDPlot(Val(rp), DF), Val(res), picks, DF)

(***************************************************************************)
(* EFDD.mpe and EFDD.mpe_from_plot (inherited by FSDD and EFDD_MS)         *)
(***************************************************************************)
\* Mutant: the peak limit is written to the segment length.
SaveRunParamsEFDD_TouchesConfig(rp, sel_freq, args) ==
    [rp EXCEPT !.sel_freq = Some(sel_freq), !.DF1 = Some(args.DF1),
               !.DF2 = Some(args.DF2), !.cm = Some(args.cm),
               !.MAClim = Some(args.MAClim), !.sppk = Some(args.sppk),
               !.nxseg = args.npmax]

\* The seven assignments of EFDD.mpe.
SaveRunParamsEFDD(rp, sel_freq, args) ==
    [rp EXCEPT !.sel_freq = Some(sel_freq), !.DF1 = Some(args.DF1),
               !.DF2 = Some(args.DF2), !.cm = Some(args.cm),
               !.MAClim = Some(args.MAClim), !.sppk = Some(args.sppk),
               !.npmax = Some(args.npmax)]

\* The six assignments of EFDD.mpe_from_plot.
SaveRunParamsEFDDPlot(rp, args) ==
    [rp EXCEPT !.DF1 = Some(args.DF1), !.DF2 = Some(args.DF2), !.cm = Some(args.cm),
               !.MAClim = Some(args.MAClim), !.sppk = Some(args.sppk),
               !.npmax = Some(args.npmax)]

\* Mutant: the flattened frequencies overwrite the frequency axis.
SaveResultEFDD_OverwritesFreq(res, out) ==
    [res EXCEPT !.freq = Reshape(out.Fn), !.Xi = Some(Reshape(out.Xi)),
                !.Phi = Some(out.Phi), !.forPlot = Some(out.forPlot)]

\* The four assignments that store the enhanced modal results.
SaveResultEFDD(res, out) ==
    [res EXCEPT !.Fn = Some(Reshape(out.Fn)), !.Xi = Some(Reshape(out.Xi)),
                !.Phi = Some(out.Phi), !.forPlot = Some(out.forPlot)]

\* The estimation and storage shared by EFDD.mpe and EFDD.mpe_from_plot.
EstimateEFDD(a, rp, res, sel_freq, args) ==
    LET out == EFDD_mpe(res.Sy, res.freq, a.dt, sel_freq,
                        rp.method_SD, method(a.cls), args)
    IN IF out.status # OK THEN Outcome(out.status, Some(rp), Some(res))
       ELSE Outcome(OK, Some(rp), Some(SaveResultEFDD(res, out)))

\* EFDD.mpe(sel_freq, DF1, DF2, cm, MAClim, sppk, npmax).
EFDDmpe(a, rp, res, sel_freq, args) ==
    IF rp = None THEN Outcome(NoRunParams_sel_freq, rp, res)
    ELSE IF res = None                                     \* self.result.Sy
         THEN Outcome(NoResult_Sy, Some(SaveRunParamsEFDD(Val(rp), sel_freq, args)), res)
    ELSE EstimateEFDD(a, SaveRunParamsEFDD(Val(rp), sel_freq, args), Val(res),
                      sel_freq, args)

\* EFDD.mpe_from_plot(DF1, ..., npmax, freqlim); picks from the collaborator.
EFDDmpe_from_plot(a, rp, res, picks, args) ==
    IF rp = None THEN Outcome(NoRunParams_DF1, rp, res)
    ELSE IF res = None                                     \* SelFromPlot(algo=self)
         THEN Outcome(NoResult_Plot, Some(SaveRunParamsEFDDPlot(Val(rp), args)), res)
    ELSE EstimateEFDD(a, SaveRunParamsEFDDPlot(Val(rp), args), Val(res), picks, args)

(***************************************************************************)
(* Method calls as actions                                                 *)
(***************************************************************************)
\* The run-parameter and result objects instance i refers to.
RP(i) == IF algo[i].run_params = None THEN None
         ELSE Some(params[Val(algo[i].run_params)])

RES(i) == IF algo[i].result = None THEN None ELSE results[Val(algo[i].result)]

\* A method of instance i ends with outcome o: its writes reach the heaps.
Apply(i, o) ==
    /\ UNCHANGED <<algo, setups, classes>>
    /\ ret' = [status |-> o.status, value |-> None]
    /\ params' = IF algo[i].run_params = None THEN params
                 ELSE [params EXCEPT ![Val(algo[i].run_params)] = Val(o.rp)]
    /\ results' = IF algo[i].result = None THEN results
                  ELSE [results EXCEPT ![Val(algo[i].result)] = o.res]

MpeFDD(i, sel_freq, DF) ==
    /\ MpeOwner(algo[i].cls) = "FDD"
    /\ Apply(i, FDDmpe(algo[i], RP(i), RES(i), sel_freq, DF))

MpeFromPlotFDD(i, picks, DF) ==
    /\ MpeOwner(algo[i].cls) = "FDD"
    /\ Apply(i, FDDmpe_from_plot(algo[i], RP(i), RES(i), picks, DF))

MpeEFDD(i, sel_freq, args) ==
    /\ MpeOwner(algo[i].cls) = "EFDD"
    /\ Apply(i, EFDDmpe(algo[i], RP(i), RES(i), sel_freq, args))

MpeFromPlotEFDD(i, picks, args) ==
    /\ MpeOwner(algo[i].cls) = "EFDD"
    /\ Apply(i, EFDDmpe_from_plot(algo[i], RP(i), RES(i), picks, args))

(***************************************************************************)
(* Specification                                                           *)
(***************************************************************************)
\* Two instances of one class, just constructed; two parameter objects of
\* the class's RunParamCls built by the caller; nothing run yet.
Init ==
    \E c \in Classes :
        /\ algo = [i \in Inst |-> NewAlgorithm(c)]
        /\ params = [p \in ParamIds |-> NewRunParams(RunParamCls(c), Config(p))]
        /\ results = [r \in ResIds |-> None]
        /\ ret = [status |-> OK, value |-> None]
        /\ setups = << >>
        /\ classes = [n |-> Len(DefinitionOrder), own |-> Imported(Len(DefinitionOrder))]

\* One instance driven through every public operation with every input.
Next ==
    \E i \in {"a1"} :
        \/ \E din \in DataInputs : SetData(i, din[1], din[2])
        \/ \E p \in ParamIds : SetRunParams(i, p)
        \/ Run(i)
        \/ SetResultReturned(i)
        \/ \E L \in SelLists, DF \in DFs : MpeFDD(i, L, DF)
        \/ \E L \in SelLists, DF \in DFs : MpeFromPlotFDD(i, L, DF)
        \/ \E L \in SelLists, args \in EFDDArgs : MpeEFDD(i, L, args)
        \/ \E L \in SelLists, args \in EFDDArgs : MpeFromPlotEFDD(i, L, args)

Spec == Init /\ [][Next]_vars

\* Two instances of one session, which may be handed the same run-parameter
\* object and the same result object; one input per operation.
SharedList == <<26, 84>>

SharedArgs == CHOOSE args \in EFDDArgs : args.DF1 = DF1_default

\* a1 is configured with either object, a2 with the one both may share.
SharedParams(i) == IF i = "a1" THEN ParamIds ELSE {"p1"}

NextShared ==
    \E i \in Inst :
        \/ SetData(i, "d1", 50)
        \/ \E p \in SharedParams(i) : SetRunParams(i, p)
        \/ Run(i)
        \/ SetResultReturned(i)
        \/ \E j \in Inst : SetResultShared(i, j)
        \/ MpeFDD(i, SharedList, DF_default)
        \/ MpeEFDD(i, SharedList, SharedArgs)

SpecShared == Init /\ [][NextShared]_vars

(***************************************************************************)
(* Vocabulary of the properties                                            *)
(***************************************************************************)
\* The result object instance i refers to after the step.
ResultAfter(i) ==
    IF algo'[i].result = None THEN None ELSE results'[Val(algo'[i].result)]

\* The modal fields and the spectral fields of a result object (or None).
ModalOf(o) ==
    IF o = None THEN None
    ELSE Some([Fn |-> Val(o).Fn, Phi |-> Val(o).Phi,
               Xi |-> Val(o).Xi, forPlot |-> Val(o).forPlot])

SpectralOf(o) ==
    IF o = None THEN None
    ELSE Some([freq |-> Val(o).freq, Sy |-> Val(o).Sy,
               S_val |-> Val(o).S_val, S_vec |-> Val(o).S_vec])

\* The same object with no modal parameters stored.
Cleared(o) ==
    IF o = None THEN None
    ELSE Some([Val(o) EXCEPT !.Fn = None, !.Phi = None, !.Xi = None, !.forPlot = None])

\* The step is a direct estimation call, an interactive one, any of them.
IsMpe(i) ==
    \/ \E L \in SelLists, DF \in DFs : MpeFDD(i, L, DF)
    \/ \E L \in SelLists, args \in EFDDArgs : MpeEFDD(i, L, args)

IsMpeFromPlot(i) ==
    \/ \E L \in SelLists, DF \in DFs : MpeFromPlotFDD(i, L, DF)
    \/ \E L \in SelLists, args \in EFDDArgs : MpeFromPlotEFDD(i, L, args)

IsEstimation(i) == IsMpe(i) \/ IsMpeFromPlot(i)

\* Failures raised inside peak extraction and modal fitting.
EstimationFailures == {PeakNotFound, InsufficientPeaks, FitErr}

(***************************************************************************)
(* C1  mpe on an instance with no stored result                            *)
(***************************************************************************)
\* C1: for every concrete class, an mpe call on an instance that has no
\* stored result raises "Run algorithm first" and nothing else.
C1_MpeWithoutResultRaisesRunFirst ==
    [][\A i \in Inst :
          (algo[i].result = None /\ IsMpe(i)) => ret'.status = RunFirst]_vars

(***************************************************************************)
(* C2  run without data, sampling frequency or run parameters              *)
(***************************************************************************)
\* C2: a run on an instance the _pre_run check rejects raises that check's
\* error, so no spectral estimation is attempted.
C2_RunRejectedByPreRun ==
    [][\A i \in Inst :
          (Run(i) /\ PreRun(algo[i]) # OK) => ret'.status = PreRun(algo[i])]_vars

(***************************************************************************)
(* C3  a successful run stores its result                                  *)
(***************************************************************************)
\* C3: after a successful run the instance's result is the object the run
\* computed, so an mpe call made next passes the result-presence check.
C3_RunStoresItsResult ==
    [][\A i \in Inst :
          (Run(i) /\ ret'.status = OK) =>
              /\ ResultAfter(i) = ret'.value
              /\ BaseMpe(algo'[i]) = OK]_vars

(***************************************************************************)
(* C4  a failed estimation keeps the stored modal results                  *)
(***************************************************************************)
\* C4: when an estimation call fails inside peak extraction or modal
\* fitting, Fn, Phi, Xi and forPlot of every stored result are unchanged.
C4_FailedEstimationKeepsModalResults ==
    [][\A i \in Inst :
          (ret'.status \in EstimationFailures /\ IsEstimation(i)) =>
              \A r \in ResIds : ModalOf(results'[r]) = ModalOf(results[r])]_vars

\* An estimation has just failed on an instance whose result holds the
\* modes of an earlier successful estimation.
C4_Witness ==
    \E i \in Inst :
        /\ ret.status \in EstimationFailures
        /\ RES(i) # None
        /\ Val(RES(i)).Fn # None
        /\ Val(RES(i)).Fn # Some(<< >>)

(***************************************************************************)
(* C5  each successful estimation replaces the modal results               *)
(***************************************************************************)
\* C5: after a successful estimation call the modal fields are those the
\* same call stores in a result object with no modal parameters: nothing of
\* an earlier estimation is kept or appended.
C5_EstimationReplacesModalResults ==
    [][\A i \in Inst, L \in SelLists :
          /\ \A DF \in DFs :
                /\ (ret'.status = OK /\ MpeFDD(i, L, DF)) =>
                       ModalOf(ResultAfter(i)) =
                       ModalOf(FDDmpe(algo[i], RP(i), Cleared(RES(i)), L, DF).res)
                /\ (ret'.status = OK /\ MpeFromPlotFDD(i, L, DF)) =>
                       ModalOf(ResultAfter(i)) =
                       ModalOf(FDDmpe_from_plot(algo[i], RP(i), Cleared(RES(i)), L, DF).res)
          /\ \A args \in EFDDArgs :
                /\ (ret'.status = OK /\ MpeEFDD(i, L, args)) =>
                       ModalOf(ResultAfter(i)) =
                       ModalOf(EFDDmpe(algo[i], RP(i), Cleared(RES(i)), L, args).res)
                /\ (ret'.status = OK /\ MpeFromPlotEFDD(i, L, args)) =>
                       ModalOf(ResultAfter(i)) =
                       ModalOf(EFDDmpe_from_plot(algo[i], RP(i), Cleared(RES(i)),
                                                 L, args).res)]_vars

\* A successful interactive estimation with no picks has replaced the two
\* modes a direct estimation had stored for the recorded sel_freq.
C5_Witness ==
    \E i \in Inst :
        /\ ret.status = OK
        /\ RES(i) # None /\ RP(i) # None
        /\ Val(RES(i)).Sy.data = "d1"
        /\ Val(RP(i)).sel_freq = Some(<<26, 84>>)
        /\ Val(RES(i)).Fn = Some(<< >>)

(***************************************************************************)
(* C6  running twice overwrites                                            *)
(***************************************************************************)
\* The inputs a run of instance a reads are those result object res was
\* computed from: the same run-parameter object, data and sampling interval.
SameRunInputs(a, res) ==
    /\ a.run_params # None /\ a.data # None
    /\ res.made_with = a.run_params
    /\ res.Sy.data = Val(a.data)
    /\ IF RunOwner(a.cls) = "FDD"
       THEN a.dt = Some(res.Sy.dt)
       ELSE a.fs # None /\ res.Sy.dt = <<1, Val(a.fs)>>

\* C6: storing the result a run returned makes it the instance's result as
\* it was returned (one freq, Sy, S_val, S_vec and no modal parameters); and
\* a run of an instance whose stored result was computed from the inputs it
\* still has returns the same freq, Sy, S_val and S_vec.
C6_SecondRunOverwrites ==
    [][\A i \in Inst :
          /\ SetResultReturned(i) => ResultAfter(i) = ret.value
          /\ (ret'.status = OK /\ Run(i) /\ RES(i) # None) =>
                 (SameRunInputs(algo[i], Val(RES(i))) =>
                      SpectralOf(ret'.value) = SpectralOf(RES(i)))]_vars

\* A second run has just returned on an instance that still holds the
\* estimated result of its first run.
C6_Witness ==
    \E i \in Inst :
        /\ ret.status = OK /\ ret.value # None
        /\ RES(i) # None
        /\ SameRunInputs(algo[i], Val(RES(i)))
        /\ Val(RES(i)).Fn # None
        /\ Val(RP(i)).sel_freq # None

(***************************************************************************)
(* C7  interactive estimation against direct estimation                    *)
(***************************************************************************)
\* Two outcomes raise or return alike and leave the same run-parameter and
\* result objects.
SameEffect(o1, o2) ==
    /\ (o1.status = OK) = (o2.status = OK)
    /\ o1.rp = o2.rp
    /\ o1.res = o2.res

\* C7: an interactive estimation whose collaborator returns the list L
\* raises exactly when the direct estimation with sel_freq = L and the same
\* other arguments raises, and leaves the instance in the same state.
C7_FromPlotIsMpe ==
    [][\A i \in Inst, L \in SelLists :
          /\ \A DF \in DFs :
                MpeFromPlotFDD(i, L, DF) =>
                    SameEffect(FDDmpe_from_plot(algo[i], RP(i), RES(i), L, DF),
                               FDDmpe(algo[i], RP(i), RES(i), L, DF))
          /\ \A args \in EFDDArgs :
                MpeFromPlotEFDD(i, L, args) =>
                    SameEffect(EFDDmpe_from_plot(algo[i], RP(i), RES(i), L, args),
                               EFDDmpe(algo[i], RP(i), RES(i), L, args))]_vars

(***************************************************************************)
(* C8  lifecycle order                                                     *)
(***************************************************************************)
\* C8: an instance that holds a result also holds run parameters and bound
\* data, and modal parameters exist only in a result that has its spectral
\* fields.
C8_ResultImpliesConfiguredAndBound ==
    \A i \in Inst :
        algo[i].result # None =>
            /\ algo[i].run_params # None
            /\ algo[i].data # None /\ algo[i].fs # None
            /\ Val(RES(i)).Fn # None => Val(RES(i)).Sy.data \in {"d1", "d2"}

(***************************************************************************)
(* C9  run parameters under run and estimation                             *)
(***************************************************************************)
\* The run-stage configuration of a run-parameter object.
RunConfig(rp) == <<rp.cls, rp.nxseg, rp.method_SD, rp.pov>>

\* C9 as stated: no run and no estimation call changes any field of any
\* run-parameter object.
C9_RunParamsNeverChange ==
    [][\A i \in Inst : (Run(i) \/ IsEstimation(i)) => params' = params]_vars

\* C9 amended: a run changes no field of any run-parameter object; an
\* estimation call changes no run-stage field (class, nxseg, method_SD,
\* pov) and no object other than the one of the instance it is called on.
C9_RunConfigNeverChanges ==
    [][\A i \in Inst :
          /\ Run(i) => params' = params
          /\ IsEstimation(i) =>
                \A p \in ParamIds :
                    /\ RunConfig(params'[p]) = RunConfig(params[p])
                    /\ algo[i].run_params # Some(p) => params'[p] = params[p]]_vars

\* An enhanced estimation has recorded arguments that differ from the
\* defaults in the object the instance is configured with.
C9_Witness ==
    \E i \in Inst :
        /\ RP(i) # None
        /\ Val(RP(i)).sel_freq # None
        /\ Val(RP(i)).npmax = Some(10)

(***************************************************************************)
(* C10  the spectral result under estimation                               *)
(***************************************************************************)
\* C10: no estimation call, successful or failed, changes freq, Sy, S_val
\* or S_vec of any stored result.
C10_EstimationKeepsSpectralResult ==
    [][\A i \in Inst :
          IsEstimation(i) =>
              \A r \in ResIds : SpectralOf(results'[r]) = SpectralOf(results[r])]_vars

\* An enhanced estimation has stored damping ratios in a result.
C10_Witness ==
    \E r \in ResIds :
        /\ results[r] # None
        /\ Val(results[r]).Xi # None
        /\ Val(results[r]).Xi # Some(<< >>)
        /\ ret.status = OK

(***************************************************************************)
(* C11  attaching a configuration                                          *)
(***************************************************************************)
\* Run-stage settings a caller writes: a valid one, a non-positive segment
\* length, an overlap of 100 percent.
ConfigInputs ==
    {[nxseg |-> 1024, method_SD |-> "cor", pov |-> 50],
     [nxseg |-> 0, method_SD |-> "cor", pov |-> 50],
     [nxseg |-> 1024, method_SD |-> "per", pov |-> 100]}

\* The domain of the run-stage fields.
ValidConfig(cfg) ==
    /\ cfg.nxseg > 0
    /\ cfg.pov >= 0 /\ cfg.pov < 100
    /\ cfg.method_SD \in {"cor", "per"}

ConfigErr == "ConfigurationError"

\* The caller assigns run-stage fields of an object it built, the way the
\* estimation methods assign sel_freq and DF.
AssignConfigFields(p, cfg) ==
    /\ params' = [params EXCEPT ![p].nxseg = cfg.nxseg,
                                ![p].method_SD = cfg.method_SD,
                                ![p].pov = cfg.pov]
    /\ ret' = [status |-> OK, value |-> None]
    /\ UNCHANGED <<algo, results, setups, classes>>

\* cls(run_params=p): a truthy run_params is stored as it is.
ConstructWithRunParams(i, p) ==
    /\ params[p].cls = RunParamCls(algo[i].cls)
    /\ algo' = [algo EXCEPT ![i] = [NewAlgorithm(algo[i].cls) EXCEPT !.run_params = Some(p)]]
    /\ ret' = [status |-> OK, value |-> None]
    /\ UNCHANGED <<params, results, setups, classes>>

\* cls(**kwargs): the object is built by self.RunParamCls(**kwargs), which
\* validates; when it raises, no instance is built.  The object built for
\* the instance lives in slot p.
ConstructWithKwargs(i, p, cfg) ==
    IF ValidConfig(cfg)
    THEN /\ algo' = [algo EXCEPT ![i] = [NewAlgorithm(algo[i].cls) EXCEPT !.run_params = Some(p)]]
         /\ params' = [params EXCEPT ![p] = NewRunParams(RunParamCls(algo[i].cls), cfg)]
         /\ ret' = [status |-> OK, value |-> None]
         /\ UNCHANGED <<results, setups, classes>>
    ELSE /\ ret' = [status |-> ConfigErr, value |-> None]
         /\ UNCHANGED <<algo, params, results, setups, classes>>

\* One instance driven through every way of attaching a configuration; p1
\* is an object the caller built, p2 the object of a keyword construction.
NextConfig ==
    \E i \in {"a1"} :
        \/ \E cfg \in ConfigInputs : AssignConfigFields("p1", cfg)
        \/ ConstructWithRunParams(i, "p1")
        \/ \E cfg \in ConfigInputs : ConstructWithKwargs(i, "p2", cfg)
        \/ SetRunParams(i, "p1")
        \/ \E din \in DataInputs : SetData(i, din[1], din[2])
        \/ Run(i)

SpecConfig == Init /\ [][NextConfig]_vars

\* C11: every step that attaches a configuration with a missing or
\* out-of-domain field (by the constructor with run_params, by the
\* constructor with keyword parameters, by set_run_params) raises a
\* configuration error and leaves the instance without run parameters.
C11_InvalidConfigurationRejected ==
    [][\A i \in Inst :
          /\ \A p \in ParamIds :
                (/\ ~ValidConfig(params[p])
                 /\ algo[i].run_params = None
                 /\ SetRunParams(i, p) \/ ConstructWithRunParams(i, p)) =>
                    /\ ret'.status = ConfigErr
                    /\ algo'[i].run_params = None
          /\ \A cfg \in ConfigInputs :
                (~ValidConfig(cfg) /\ ConstructWithKwargs(i, "p2", cfg)) =>
                    /\ ret'.status = ConfigErr
                    /\ algo'[i].run_params = algo[i].run_params]_vars

(***************************************************************************)
(* C12  two instances                                                      *)
(***************************************************************************)
\* The run-parameter object instance i refers to after the step.
RunParamsAfter(i) ==
    IF algo'[i].run_params = None THEN None
    ELSE Some(params'[Val(algo'[i].run_params)])

\* The step is an operation called on instance i.
OperationOn(i) ==
    \/ SetData(i, "d1", 50)
    \/ \E p \in SharedParams(i) : SetRunParams(i, p)
    \/ Run(i)
    \/ SetResultReturned(i)
    \/ \E j \in Inst : SetResultShared(i, j)
    \/ MpeFDD(i, SharedList, DF_default)
    \/ MpeEFDD(i, SharedList, SharedArgs)

\* C12: an operation on one instance leaves the result, run_params, data,
\* fs and dt of every other instance as they were.
C12_OperationsLeaveOtherInstance ==
    [][\A A \in Inst, B \in Inst :
          (A # B /\ OperationOn(A)) =>
              /\ algo'[B] = algo[B]
              /\ RunParamsAfter(B) = RP(B)
              /\ ResultAfter(B) = RES(B)]_vars

(***************************************************************************)
(* Multi-setup fusion (PoSER)                                              *)
(***************************************************************************)
NSetups == 3
MaxModes == 2

\* Channels per setup, reference indices (0-based, as in ref_ind), and the
\* arbitrary scale each setup's mode shapes come with.
ChannelCounts == {3, 4}
RefLists == {<<0, 1>>, <<0, 2>>}
Gains == {1, 2, -1}

SetupMismatch == "SetupMismatchError"

\* Entry of a 0-based index in a vector.
At(v, k) == v[k + 1]

\* Mode shape amplitude of mode m at channel c of a setup with scale g.
Amplitude(g, m, c) == g * (m + c)

\* The estimated modes of one setup: k mode shapes over n channels.
SetupResult(n, refs, g, k) ==
    [n |-> n, ref_ind |-> refs,
     Phi |-> [m \in 1..k |-> [c \in 1..n |-> Amplitude(g, m, c)]]]

\* A number as a fraction, and a fraction times a number.
Frac(x) == <<x, 1>>
Times(f, x) == <<f[1] * x, f[2]>>

RECURSIVE Dot(_, _, _, _, _)
\* Sum over the first j reference channels of u[ru] * v[rv].
Dot(u, ru, v, rv, j) ==
    IF j = 0 THEN 0
    ELSE Dot(u, ru, v, rv, j - 1) + At(u, ru[j]) * At(v, rv[j])

\* The least-squares scalar that aligns the reference sub-vector of shape u
\* (reference indices ru) to that of the master shape v (indices rv).
ScaleFactor(u, ru, v, rv) ==
    <<Dot(u, ru, v, rv, Len(ru)), Dot(u, ru, u, ru, Len(ru))>>

\* The non-reference channel indices of a setup, ascending.
NonRef(n, refs) ==
    SelectSeq([c \in 1..n |-> c - 1], LAMBDA c : \A j \in 1..Len(refs) : refs[j] # c)

\* The rescaled non-reference entries of setup s for mode m.
Rescaled(s, master, m) ==
    LET a == ScaleFactor(s.Phi[m], s.ref_ind, master.Phi[m], master.ref_ind)
        nr == NonRef(s.n, s.ref_ind)
    IN [j \in 1..Len(nr) |-> Times(a, At(s.Phi[m], nr[j]))]

RECURSIVE Splice(_, _, _)
\* The rescaled entries of setups 2..k, in input order.
Splice(ss, m, k) ==
    IF k <= 1 THEN << >>
    ELSE Splice(ss, m, k - 1) \o Rescaled(ss[k], ss[1], m)

\* Mutant: every channel of the other setups is spliced in, the reference
\* channels included.
FuseMode_SplicesAllChannels(ss, m) ==
    LET a(k) == ScaleFactor(ss[k].Phi[m], ss[k].ref_ind, ss[1].Phi[m], ss[1].ref_ind)
        all(k) == [c \in 1..ss[k].n |-> Times(a(k), ss[k].Phi[m][c])]
    IN [c \in 1..ss[1].n |-> Frac(ss[1].Phi[m][c])] \o all(2) \o all(3)

\* The fused shape of mode m: the master's vector, then the others' rescaled
\* non-reference entries.
FuseMode(ss, m) ==
    [c \in 1..ss[1].n |-> Frac(ss[1].Phi[m][c])] \o Splice(ss, m, Len(ss))

\* Mutant: a merge that fuses the modes every setup has and never raises.
merge_results_NoCountCheck(ss) ==
    [status |-> OK,
     value |-> Some([Phi |-> [m \in 1..1 |-> FuseMode(ss, m)]])]

\* merge_results: the count check, then one fused shape per mode.
merge_results(ss) ==
    IF \E k \in 1..Len(ss) : Len(ss[k].Phi) # Len(ss[1].Phi)
    THEN [status |-> SetupMismatch, value |-> None]
    ELSE [status |-> OK,
          value |-> Some([Phi |-> [m \in 1..Len(ss[1].Phi) |-> FuseMode(ss, m)]])]

\* msp = MultiSetup_PoSER(ref_ind, single_setups); result = msp.merge_results()
MergeResults ==
    /\ ret' = merge_results(setups)
    /\ UNCHANGED <<algo, params, results, setups, classes>>

\* Three estimated setups in every combination of channel count, reference
\* indices, scale and mode count.
InitPoSER ==
    /\ algo = [i \in Inst |-> NewAlgorithm("FDD")]
    /\ params = [p \in ParamIds |-> NewRunParams("FDDRunParams", Config(p))]
    /\ results = [r \in ResIds |-> None]
    /\ ret = [status |-> OK, value |-> None]
    /\ classes = [n |-> Len(DefinitionOrder), own |-> Imported(Len(DefinitionOrder))]
    /\ setups \in [1..NSetups ->
                     {SetupResult(n, refs, g, k) :
                        n \in ChannelCounts, refs \in RefLists,
                        g \in Gains, k \in 1..MaxModes}]

NextPoSER == MergeResults

SpecPoSER == InitPoSER /\ [][NextPoSER]_vars

(***************************************************************************)
(* C13  fusing setups with different mode counts                           *)
(***************************************************************************)
\* C13: a merge of setups that do not all hold the same number of modes
\* fails with a setup-mismatch error and returns no fused result.
C13_ModeCountMismatchRejected ==
    [][(MergeResults /\ \E k \in 1..NSetups : Len(setups[k].Phi) # Len(setups[1].Phi)) =>
          /\ ret'.status = SetupMismatch
          /\ ret'.value = None]_vars

\* A merge of setups with one, two and two modes has been rejected.
C13_Witness ==
    /\ ret.status = SetupMismatch
    /\ Len(setups[1].Phi) = 1 /\ Len(setups[2].Phi) = 2

(***************************************************************************)
(* C14  the fused mode shape                                               *)
(***************************************************************************)
RECURSIVE TotalChannels(_, _)
TotalChannels(ss, k) == IF k = 0 THEN 0 ELSE TotalChannels(ss, k - 1) + ss[k].n

\* C14: in every fused mode the entries at the master's reference
\* positions are the master's own entries, and the vector has as many
\* entries as the setups have channels, the reference channels of the
\* setups after the first not counted again.
C14_FusedShapeKeepsMasterReference ==
    [][(MergeResults /\ ret'.status = OK) =>
          \A m \in 1..Len(setups[1].Phi) :
              LET v == Val(ret'.value).Phi[m]
                  refs == setups[1].ref_ind
              IN /\ Len(v) = TotalChannels(setups, NSetups)
                              - (NSetups - 1) * Len(refs)
                 /\ \A j \in 1..Len(refs) :
                       At(v, refs[j]) = Frac(At(setups[1].Phi[m], refs[j]))]_vars

\* Setups with different scales and different reference indices have been
\* fused.
C14_Witness ==
    /\ ret.value # None
    /\ setups[1].ref_ind # setups[2].ref_ind
    /\ setups[2].Phi[1][1] # setups[1].Phi[1][1]
    /\ setups[3].Phi[1][1] < 0
    /\ Len(setups[1].Phi) = MaxModes

(***************************************************************************)
(* C15  the sampling interval                                              *)
(***************************************************************************)
\* C15: whenever the sampling frequency of an instance is set, its
\* sampling interval is 1 / fs, after set_data calls that fail included.
C15_SamplingIntervalDerived ==
    \A i \in Inst :
        algo[i].fs # None => algo[i].dt = Some(<<1, Val(algo[i].fs)>>)

(***************************************************************************)
(* C16  what the basic estimation writes                                   *)
(***************************************************************************)
\* Every field of a result object but Fn and Phi (or None).
AllButFnPhi(o) ==
    IF o = None THEN None
    ELSE Some([Val(o) EXCEPT !.Fn = None, !.Phi = None])

\* The damping fields of a result object (or None).
DampingOf(o) ==
    IF o = None THEN None ELSE Some(<<Val(o).Xi, Val(o).forPlot>>)

\* The step is an estimation call of the basic or of the enhanced methods.
IsBasicEstimation(i) ==
    /\ MpeOwner(algo[i].cls) = "FDD"
    /\ \E L \in SelLists, DF \in DFs : MpeFDD(i, L, DF) \/ MpeFromPlotFDD(i, L, DF)

IsEnhancedEstimation(i) ==
    /\ MpeOwner(algo[i].cls) = "EFDD"
    /\ \E L \in SelLists, args \in EFDDArgs :
          MpeEFDD(i, L, args) \/ MpeFromPlotEFDD(i, L, args)

\* C16: an estimation call of FDD or FDD_MS changes no field of any result
\* but Fn and Phi, so it never sets a damping field; and a step after which
\* a result holds damping ratios or fit diagnostics it did not hold before
\* is an estimation call of EFDD, FSDD or EFDD_MS.
C16_BasicEstimationWritesFnPhiOnly ==
    [][/\ \A i \in Inst :
             IsBasicEstimation(i) =>
                 \A r \in ResIds : AllButFnPhi(results'[r]) = AllButFnPhi(results[r])
       /\ \A r \in ResIds :
             (/\ results'[r] # None
              /\ DampingOf(results'[r]) # Some(<<None, None>>)
              /\ DampingOf(results'[r]) # DampingOf(results[r])) =>
                 \E i \in Inst : IsEnhancedEstimation(i)]_vars

\* A basic estimation has stored two natural frequencies; the result holds
\* no damping.
C16_Witness ==
    \E i \in Inst :
        /\ MpeOwner(algo[i].cls) = "FDD"
        /\ RES(i) # None
        /\ Val(RES(i)).Fn # None /\ Val(RES(i)).Fn # Some(<< >>)
        /\ Val(RES(i)).Xi = None /\ Val(RES(i)).forPlot = None

(***************************************************************************)
(* C17  EFDD, FSDD and EFDD_MS                                             *)
(***************************************************************************)
\* The method tag the claim gives each enhanced class.
TagOf(c) == IF c = "FSDD" THEN "FSDD" ELSE "EFDD"

\* C17: an mpe call on an instance of EFDD, FSDD or EFDD_MS that has run
\* parameters and a result records the seven arguments in the run
\* parameters, calls the enhanced estimator with the tag of its class
\* ("FSDD" for FSDD, "EFDD" for EFDD and EFDD_MS) and the same other
\* arguments, and stores Fn, Xi, Phi and forPlot of what it returns; so the
\* classes differ in the tag only.
C17_EnhancedClassesDifferInTagOnly ==
    [][\A i \in Inst, L \in SelLists, args \in EFDDArgs :
          (/\ algo[i].cls \in {"EFDD", "FSDD", "EFDD_MS"}
           /\ RP(i) # None /\ RES(i) # None
           /\ MpeEFDD(i, L, args)) =>
              LET rp1 == SaveRunParamsEFDD(Val(RP(i)), L, args)
                  res0 == Val(RES(i))
                  out == EFDD_mpe(res0.Sy, res0.freq, algo[i].dt, L,
                                  rp1.method_SD, TagOf(algo[i].cls), args)
              IN /\ RunParamsAfter(i) = Some(rp1)
                 /\ ret'.status = out.status
                 /\ ResultAfter(i) = IF out.status = OK
                                     THEN Some(SaveResultEFDD(res0, out))
                                     ELSE RES(i)]_vars

\* An FSDD instance holds the damping ratios of two selected frequencies.
C17_Witness ==
    \E i \in Inst :
        /\ algo[i].cls = "FSDD"
        /\ RES(i) # None
        /\ Val(RES(i)).Xi # None
        /\ Len(Val(Val(RES(i)).Xi)) = 2

(***************************************************************************)
(* C18  an estimation call with no stored result                           *)
(***************************************************************************)
\* C18: an mpe or mpe_from_plot call on an instance with no stored result
\* leaves the attributes of the instance, every run-parameter object and
\* every result object as they were.
C18_RejectedEstimationChangesNothing ==
    [][\A i \in Inst :
          (algo[i].result = None /\ IsEstimation(i)) =>
              /\ algo' = algo
              /\ params' = params
              /\ results' = results]_vars

(***************************************************************************)
(* C19  the stored result and the bound inputs                             *)
(***************************************************************************)
\* C19: the result an instance holds was computed from the data, the
\* sampling frequency and the run-parameter object the instance is bound
\* to now.
C19_StoredResultMatchesBoundInputs ==
    \A i \in Inst :
        RES(i) # None => SameRunInputs(algo[i], Val(RES(i)))

(***************************************************************************)
(* C20  the recorded estimation parameters                                 *)
(***************************************************************************)
\* The enhanced estimation arguments a run-parameter object records.
RecordedArgs(rp) ==
    [DF1 |-> Val(rp.DF1), DF2 |-> Val(rp.DF2), cm |-> Val(rp.cm),
     MAClim |-> Val(rp.MAClim), sppk |-> Val(rp.sppk), npmax |-> Val(rp.npmax)]

\* The modal results of object res are what the estimation of the class of
\* instance a yields from the parameters recorded in rp.
ProducedBy(a, rp, res) ==
    /\ rp.sel_freq # None
    /\ IF MpeOwner(a.cls) = "FDD"
       THEN LET out == FDD_mpe(res.S_val, res.S_vec, res.freq,
                               Val(rp.sel_freq), Val(rp.DF))
            IN /\ out.status = OK
               /\ res.Fn = Some(out.Fn) /\ res.Phi = Some(out.Phi)
       ELSE LET out == EFDD_mpe(res.Sy, res.freq, a.dt, Val(rp.sel_freq),
                                rp.method_SD, method(a.cls), RecordedArgs(rp))
            IN /\ out.status = OK
               /\ res.Fn = Some(Reshape(out.Fn)) /\ res.Xi = Some(Reshape(out.Xi))
               /\ res.Phi = Some(out.Phi)

\* C20: whenever an instance holds modal results, the estimation
\* parameters recorded in its run parameters are the ones that produced
\* them.
C20_RecordedParametersProducedResults ==
    \A i \in Inst :
        (RES(i) # None /\ RP(i) # None /\ Val(RES(i)).Fn # None) =>
            ProducedBy(algo[i], Val(RP(i)), Val(RES(i)))

(***************************************************************************)
(* C21  re-running an estimated instance                                   *)
(***************************************************************************)
\* A result object with no modal parameters.
NoModes == Some([Fn |-> None, Phi |-> None, Xi |-> None, forPlot |-> None])

\* C21: the result a run returns carries no modal parameters, and once it
\* is stored on an instance that held modal parameters, the instance shows
\* none of them.
C21_RerunDropsModalResults ==
    [][\A i \in Inst :
          /\ (ret'.value # None /\ Run(i)) => ModalOf(ret'.value) = NoModes
          /\ (/\ RES(i) # None
              /\ ModalOf(RES(i)) # NoModes
              /\ SetResultReturned(i)) => ModalOf(ResultAfter(i)) = NoModes]_vars

\* The result of a re-run has been stored on an instance of a basic class
\* whose run parameters record an estimation of the earlier result.
C21_Witness ==
    \E i \in Inst :
        /\ MpeOwner(algo[i].cls) = "FDD"
        /\ RP(i) # None /\ Val(RP(i)).sel_freq = Some(<<26, 84>>)
        /\ RES(i) # None /\ ModalOf(RES(i)) = NoModes
        /\ Val(RES(i)).Sy.data = "d1"
        /\ ret.status = OK /\ ret.value = None

(***************************************************************************)
(* Importing fdd.py, then building and using an instance                   *)
(***************************************************************************)
\* The place of an instance no constructor has built yet.
Unbuilt ==
    [cls |-> "unbuilt", name |-> "", run_params |-> None, result |-> None,
     data |-> None, fs |-> None, dt |-> None]

\* The next class statement of the module is executed.
ImportStep ==
    /\ classes.n < Len(DefinitionOrder)
    /\ LET c == DefinitionOrder[classes.n + 1]
           own == DefineClass(classes.own, c)
       IN /\ classes' = [n |-> classes.n + 1, own |-> own]
          /\ ret' = [status |-> InitSubclass(own, c), value |-> None]
    /\ UNCHANGED <<algo, params, results, setups>>

\* Names a caller passes to the constructor.
Names == {None, Some(""), Some("modal")}

\* Mutant: keyword parameters are looked at before run_params.
RunParamsSource_KwargsFirst(rp, kw) ==
    IF kw # None THEN "kwargs" ELSE IF rp # None THEN "run_params" ELSE "none"

\* The if / elif of __init__: where the instance's run_params come from.
RunParamsSource(rp, kw) ==
    IF rp # None THEN "run_params" ELSE IF kw # None THEN "kwargs" ELSE "none"

\* name or self.__class__.__name__
NameOrClass(nm, c) == IF nm = None \/ nm = Some("") THEN c ELSE Val(nm)

\* c(run_params=rp, name=nm, **kw): the whole constructor.  An object built
\* from keyword parameters lives in slot p2; RunParamCls is looked up on
\* the class when the constructor runs.
Construct(i, c, rp, nm, kw) ==
    LET src == RunParamsSource(rp, kw)
        new == [NewAlgorithm(c) EXCEPT !.name = NameOrClass(nm, c)]
    IN /\ rp # None => params[Val(rp)].cls = RunParamCls(c)
       /\ CASE src = "run_params" ->
                 /\ algo' = [algo EXCEPT ![i] = [new EXCEPT !.run_params = rp]]
                 /\ ret' = [status |-> OK, value |-> None]
                 /\ UNCHANGED params
            [] src = "kwargs" /\ ValidConfig(Val(kw)) ->
                 /\ algo' = [algo EXCEPT ![i] = [new EXCEPT !.run_params = Some("p2")]]
                 /\ params' = [params EXCEPT
                                 !["p2"] = NewRunParams(Val(Resolve(classes.own, c))[1], Val(kw))]
                 /\ ret' = [status |-> OK, value |-> None]
            [] src = "kwargs" /\ ~ValidConfig(Val(kw)) ->
                 /\ ret' = [status |-> ConfigErr, value |-> None]
                 /\ UNCHANGED <<algo, params>>
            [] src = "none" ->
                 /\ algo' = [algo EXCEPT ![i] = new]
                 /\ ret' = [status |-> OK, value |-> None]
                 /\ UNCHANGED params
       /\ UNCHANGED <<results, setups, classes>>

\* Before the import: no class of the module exists, no instance is built;
\* the caller holds two run-parameter objects of one class.
InitImport ==
    \E k \in {"FDDRunParams", "EFDDRunParams"} :
        /\ algo = [i \in Inst |-> Unbuilt]
        /\ params = [p \in ParamIds |-> NewRunParams(k, Config(p))]
        /\ results = [r \in ResIds |-> None]
        /\ ret = [status |-> OK, value |-> None]
        /\ setups = << >>
        /\ classes = [n |-> 0, own |-> NoClasses]

\* Instance i has been built, by a class of the imported module.
Built(i) == classes.n = Len(DefinitionOrder) /\ algo[i].cls \in Classes

\* The module is imported statement by statement; after that one instance
\* is built in every way the constructor allows and driven up to a run,
\* whose result is not stored.
NextImport ==
    \/ ImportStep
    \/ \E i \in {"a1"} :
          \/ \E c \in Classes, rp \in {None, Some("p1")}, nm \in Names,
                kw \in {None} \cup {Some(cfg) : cfg \in ConfigInputs} :
                  classes.n = Len(DefinitionOrder) /\ Construct(i, c, rp, nm, kw)
          \/ \E din \in DataInputs : Built(i) /\ SetData(i, din[1], din[2])
          \/ \E p \in ParamIds : Built(i) /\ SetRunParams(i, p)
          \/ Built(i) /\ Run(i)

SpecImport == InitImport /\ [][NextImport]_vars

(***************************************************************************)
(* C22  the class pair each class resolves after the import                *)
(***************************************************************************)
FDDPair == Some(<<"FDDRunParams", "FDDResult">>)

EFDDPair == Some(<<"EFDDRunParams", "EFDDResult">>)

\* C22: once every class statement of fdd.py has been executed, in file
\* order, FDD and FDD_MS resolve RunParamCls / ResultCls to FDDRunParams /
\* FDDResult, and EFDD, FSDD and EFDD_MS to EFDDRunParams / EFDDResult;
\* every class whose body declares a pair resolves that pair.
C22_ClassesResolveDeclaredPair ==
    classes.n = Len(DefinitionOrder) =>
        /\ \A c \in {"FDD", "FDD_MS"} : Resolve(classes.own, c) = FDDPair
        /\ \A c \in {"EFDD", "FSDD", "EFDD_MS"} : Resolve(classes.own, c) = EFDDPair
        /\ \A c \in Classes : Declared(c) # None => Resolve(classes.own, c) = Declared(c)

\* The module is imported, subscripting has left a pair on BaseAlgorithm, and
\* an FDD built from keyword parameters holds an FDDRunParams object.
C22_Witness ==
    /\ classes.n = Len(DefinitionOrder)
    /\ classes.own["BaseAlgorithm"] # None
    /\ algo["a1"].cls = "FDD"
    /\ algo["a1"].run_params = Some("p2")
    /\ params["p2"].cls = "FDDRunParams"
    /\ ret.status = OK

(***************************************************************************)
(* C23  the state a constructor leaves                                     *)
(***************************************************************************)
\* C23: a constructor call that builds an instance leaves it with exactly
\* the run_params object it was given, keyword parameters ignored (and
\* never the cause of an error); with only keyword parameters, with an
\* object of the class's RunParamCls built from them; with neither, with
\* no run_params, and then both the run precondition and a run reject it.
\* In every case result, data, fs and dt are unset, and the name is the
\* class name when none is passed.
C23_ConstructorFixesInitialState ==
    [][\A i \in {"a1"}, c \in Classes, rp \in {None, Some("p1")}, nm \in Names,
          kw \in {None} \cup {Some(cfg) : cfg \in ConfigInputs} :
            Construct(i, c, rp, nm, kw) =>
              LET a == algo'[i]
              IN /\ rp # None => ret'.status = OK
                 /\ ret'.status = OK =>
                      /\ a.cls = c
                      /\ rp # None => a.run_params = rp /\ params' = params
                      /\ (rp = None /\ kw # None) =>
                            /\ a.run_params # None
                            /\ a.run_params # Some("p1")
                            /\ params'[Val(a.run_params)] = NewRunParams(RunParamCls(c), Val(kw))
                      /\ (rp = None /\ kw = None) =>
                            /\ a.run_params = None
                            /\ PreRun(a) # OK
                            /\ RunStatus(a) # OK
                      /\ a.result = None /\ a.data = None /\ a.fs = None /\ a.dt = None
                      /\ nm = None => a.name = c]_vars

\* An EFDD_MS built from keyword parameters alone holds an EFDDRunParams
\* object with the settings passed, and nothing else.
C23_Witness ==
    /\ classes.n = Len(DefinitionOrder)
    /\ algo["a1"] = [NewAlgorithm("EFDD_MS") EXCEPT !.run_params = Some("p2")]
    /\ params["p2"] = NewRunParams("EFDDRunParams", [nxseg |-> 1024, method_SD |-> "cor", pov |-> 50])
    /\ params["p1"].cls = "FDDRunParams"
    /\ ret.status = OK

====
